---- MODULE Spec2Model ----
(***************************************************************************)
(* A model of the gocar build engine (src/src/lib.rs, src/src/objs.rs):    *)
(* the object path mapper, the header->unit resolver, the closure scanner, *)
(* the freshness oracle and the compile/link driver of a project's         *)
(* libraries and binaries.                                                 *)
(*                                                                         *)
(* Paths are sequences of components, as std::path::Path::components()     *)
(* yields them: the root directory is a component of its own, and a file   *)
(* name is a component with a stem n and an extension e.  The field pre    *)
(* holds the bytes that get_obj_path pushes in front of a component        *)
(* ("0_", "1_", ..., "x_"); it is empty on every source path.              *)
(***************************************************************************)
EXTENDS Naturals, Sequences, FiniteSets, TLC

VARIABLES
    call,         \* pure-function harness: the operation applied and its inputs
    ret,          \* pure-function harness: its result, NotRun before it ran
    fs,           \* the filesystem: absolute path of every existing file -> its mtime
    now,          \* the system clock new mtimes are taken from
    mm,           \* what the compiler's -MM prints for each unit: unit -> header paths
    objs,         \* the object files: path -> the unit and options of its last compile
    project,      \* the manifest (Project) being built
    pc,           \* position of Project::build
    linkage,      \* the LibraryType the project is being built with
    benv,         \* the BuildEnv of the project being built
    stack,        \* the projects whose build_dependencies is waiting for this one
    queue,        \* the targets build_libs/build_bins still have to build
    cur,          \* the target being built, <<>> between targets
    target_time,  \* skip_older of Target::compile: Some(mtime) or None
    files,        \* the closure map scan_c_files returned (unit -> headers)
    todo,         \* the keys the ModifiedSources iterator has not visited yet
    up_to_date,   \* Target::compile's up_to_date
    has_cpp,      \* Target::compile's has_cpp
    cmds          \* every command spawned by the current build, in order

vars == <<call, ret, fs, now, mm, objs, project, pc, linkage, benv, stack, queue, cur,
          target_time, files, todo, up_to_date, has_cpp, cmds>>

buildVars == <<fs, now, mm, objs, project, pc, linkage, benv, stack, queue, cur,
               target_time, files, todo, up_to_date, has_cpp, cmds>>

----------------------------------------------------------------------------
(* Option<T>: None is the empty tuple, Some(x) the one-element tuple. *)

None == <<>>

Some(x) == <<x>>

----------------------------------------------------------------------------
(* std::path as used by the engine *)

Comp(n, e) == [pre |-> "", n |-> n, e |-> e]

ROOT == Comp("/", "")

IsPrefix(s, t) == Len(s) <= Len(t) /\ SubSeq(t, 1, Len(s)) = s

\* Path::is_relative
is_relative(p) == Len(p) = 0 \/ p[1] # ROOT

\* Path::file_name is None for the empty path and for the root
has_file_name(p) == Len(p) > 0 /\ p[Len(p)] # ROOT

\* Path::extension
extension(p) ==
    IF has_file_name(p) /\ p[Len(p)].e # "" THEN Some(p[Len(p)].e) ELSE None

\* PathBuf::set_extension: replaces or adds the extension of the file name
set_extension(p, e) ==
    IF has_file_name(p) THEN [p EXCEPT ![Len(p)].e = e] ELSE p

\* Path::strip_prefix, component-wise; Err is None
strip_prefix(p, base) ==
    IF IsPrefix(base, p) THEN Some(SubSeq(p, Len(base) + 1, Len(p))) ELSE None

\* Path::parent: None for the root and for the empty path
parent(p) ==
    IF has_file_name(p) THEN Some(SubSeq(p, 1, Len(p) - 1)) ELSE None

\* Path::join: an absolute right-hand side replaces the left one
join(a, b) == IF is_relative(b) THEN a \o b ELSE b

\* OsString::push of a path onto a prefix such as "0_": the bytes are glued,
\* so the prefix lands on the first component of the pushed path ("0_" +
\* "child/file" is the path 0_child/file); pushed onto nothing, or in front of
\* a root, it is a component of its own.
os_push(prefix, p) ==
    IF Len(p) = 0 THEN << [pre |-> prefix, n |-> "", e |-> ""] >>
    ELSE IF p[1] = ROOT THEN << [pre |-> prefix, n |-> "", e |-> ""] >> \o Tail(p)
    ELSE << [p[1] EXCEPT !.pre = prefix] >> \o Tail(p)

\* format!("{}_", parents)
format_parents(k) ==
    CASE k = 0 -> "0_" [] k = 1 -> "1_" [] k = 2 -> "2_" [] k = 3 -> "3_"
      [] k = 4 -> "4_" [] k = 5 -> "5_" [] k = 6 -> "6_" [] OTHER -> "7_"

----------------------------------------------------------------------------
(* objs.rs *)

RECURSIVE get_obj_path_loop(_, _, _, _)
get_obj_path_loop(target, base, parents, file) ==
    IF strip_prefix(file, base) # None
    THEN join(target, os_push(format_parents(parents), strip_prefix(file, base)[1]))
    ELSE IF parent(base) # None
         THEN get_obj_path_loop(target, parent(base)[1], parents + 1, file)
         ELSE join(target, os_push("x_", file))

\* get_obj_path with the counter left at 0 when base moves to its parent
RECURSIVE get_obj_path_loop_stuck(_, _, _, _)
get_obj_path_loop_stuck(target, base, parents, file) ==
    IF strip_prefix(file, base) # None
    THEN join(target, os_push(format_parents(parents), strip_prefix(file, base)[1]))
    ELSE IF parent(base) # None
         THEN get_obj_path_loop_stuck(target, parent(base)[1], parents, file)
         ELSE join(target, os_push("x_", file))

get_obj_path_stuck(target, base, file) == get_obj_path_loop_stuck(target, base, 0, file)

get_obj_path(target, base, file) == get_obj_path_loop(target, base, 0, file)

\* Convert path to a .c(pp) file to a path to .o file.
unit_to_obj(path) ==
    IF extension(path) = None THEN None ELSE Some(set_extension(path, "o"))

----------------------------------------------------------------------------
(* lib.rs: Compiler, header_to_unit *)

\* Compiler::determine_from_file: Some("C"), Some("Cpp") or None
determine_from_file(file) ==
    IF extension(file) = None THEN None
    ELSE IF extension(file)[1] = "c" THEN Some("C")
    ELSE IF extension(file)[1] \in {"cpp", "cc", "cxx", "CPP", "CC", "CXX"} THEN Some("Cpp")
    ELSE None

\* The for loop over the detached-header mappings (lib.rs 287-302), from
\* mapping i on; path carries the extension cpp at this point.  exists is the
\* set of the paths that exist.
RECURSIVE detached_loop(_, _, _, _)
detached_loop(path, mappings, i, exists) ==
    IF i > Len(mappings) THEN None
    ELSE IF strip_prefix(path, mappings[i].includes) # None
         THEN LET mapped == join(mappings[i].sources,
                                 strip_prefix(path, mappings[i].includes)[1])
              IN  IF mapped \in exists THEN Some(mapped)
                  ELSE IF set_extension(mapped, "c") \in exists
                       THEN Some(set_extension(mapped, "c"))
                       ELSE None
         ELSE detached_loop(path, mappings, i + 1, exists)

\* header_to_unit preferring the .cpp unit when both exist
header_to_unit_prefer_cpp(path, mappings, exists) ==
    LET c == set_extension(path, "c")
        cpp == set_extension(c, "cpp")
    IN  IF cpp \in exists THEN Some(cpp)
        ELSE IF c \in exists THEN Some(c)
             ELSE detached_loop(cpp, mappings, 1, exists)

header_to_unit(path, mappings, exists) ==
    LET c == set_extension(path, "c")
        cpp == set_extension(c, "cpp")
        c_exists == c \in exists
    IN  IF cpp \in exists
        THEN IF c_exists THEN None ELSE Some(cpp)
        ELSE IF c_exists THEN Some(set_extension(cpp, "c"))
             ELSE detached_loop(cpp, mappings, 1, exists)

----------------------------------------------------------------------------
(* lib.rs: filesystem helpers.  exists is the set of the absolute paths of the
   existing files; a directory exists when a file lies below it.  cwd is the
   working directory of the process. *)

Abs(p, cwd) == IF is_relative(p) THEN cwd \o p ELSE p

DirsOf(exists) == UNION {{SubSeq(f, 1, n) : n \in 1..(Len(f) - 1)} : f \in exists}

\* canonicalize_custom_wd: the joined path when it exists; None stands for the
\* panic of its unwrap() when it does not
canonicalize_custom_wd(path, working_dir, exists) ==
    LET joined == IF is_relative(path) THEN join(working_dir, path) ELSE path
    IN  IF joined \in exists \cup DirsOf(exists) THEN Some(joined) ELSE None

\* canonicalize: relative paths are taken from the process's working
\* directory; None stands for its Err
canonicalize(path, cwd, exists) ==
    IF Abs(path, cwd) \in exists \cup DirsOf(exists) THEN Some(Abs(path, cwd)) ELSE None

\* get_file_mtime: Some(mtime), or None for a file that does not exist
get_file_mtime(file, cwd, filesystem) ==
    IF Abs(file, cwd) \in DOMAIN filesystem THEN Some(filesystem[Abs(file, cwd)]) ELSE None

\* is_older taking an equal mtime for a newer one
is_older_or_equal(time, fileset, cwd, filesystem) ==
    \E file \in fileset :
        \/ get_file_mtime(file, cwd, filesystem) = None
        \/ /\ get_file_mtime(file, cwd, filesystem) # None
           /\ get_file_mtime(file, cwd, filesystem)[1] >= time

\* is_older: some file is missing or has an mtime greater than time
is_older(time, fileset, cwd, filesystem) ==
    \E file \in fileset :
        \/ get_file_mtime(file, cwd, filesystem) = None
        \/ /\ get_file_mtime(file, cwd, filesystem) # None
           /\ get_file_mtime(file, cwd, filesystem)[1] > time

\* ModifiedSources yielding every key as soon as one of them is stale
ModifiedSources_all(time, sources, cwd, filesystem) ==
    {source \in DOMAIN sources :
        \/ time = None
        \/ /\ time # None
           /\ \E s \in DOMAIN sources :
                 is_older(time[1], {s} \cup sources[s], cwd, filesystem)}

\* ModifiedSources: the keys its iterator yields (in the map's iteration order,
\* which is unspecified)
ModifiedSources(time, sources, cwd, filesystem) ==
    {source \in DOMAIN sources :
        \/ time = None
        \/ /\ time # None
           /\ is_older(time[1], {source} \cup sources[source], cwd, filesystem)}

----------------------------------------------------------------------------
(* lib.rs: get_headers and scan_c_files.  env is the part of BuildEnv the
   scanner reads: project_dir, the project's detached_headers and
   ignore_missing_sources, the canonicalized headers_only, and the world the
   compiler runs in (mm, exists).  A result is [kind, files]: kind "ok" with
   the closure map, or "panic". *)

ScanPanic(scanned) == [kind |-> "panic", files |-> scanned]

ScanOk(scanned) == [kind |-> "ok", files |-> scanned]

\* get_headers: the headers -MM prints for file; None is the panic of
\* expect("Unknown extension")
get_headers(file, env) ==
    IF determine_from_file(file) = None THEN None
    ELSE Some(IF file \in DOMAIN env.mm THEN env.mm[file] ELSE {})

\* lib.rs 343: the detached-header mappings, canonicalized
canonical_mappings(env) ==
    [i \in 1..Len(env.detached_headers) |->
        [includes |-> canonicalize_custom_wd(env.detached_headers[i].includes,
                                             env.project_dir, env.exists),
         sources |-> canonicalize_custom_wd(env.detached_headers[i].sources,
                                            env.project_dir, env.exists)]]

unwrapped_mappings(env) ==
    [i \in 1..Len(env.detached_headers) |->
        [includes |-> canonical_mappings(env)[i].includes[1],
         sources |-> canonical_mappings(env)[i].sources[1]]]

all_headers(scanned) == UNION {scanned[k] : k \in DOMAIN scanned}

\* resolve_header passing the headers of headers_only to the resolver too
resolve_header_no_skip(header, detached, env) ==
    LET canonicalized == canonicalize_custom_wd(header, env.project_dir, env.exists)
    IN  IF canonicalized = None THEN [tag |-> "panic", unit |-> None]
        ELSE IF /\ ~env.ignore_missing_sources
                /\ header_to_unit(canonicalized[1], detached, env.exists) = None
             THEN [tag |-> "panic", unit |-> None]
             ELSE [tag |-> "unit",
                   unit |-> header_to_unit(canonicalized[1], detached, env.exists)]

\* the filter_map closure of lib.rs 358-369 on one header: [tag, unit] with
\* tag "skip" for a header of headers_only, "panic", or "unit" with the Option
\* header_to_unit returns
resolve_header(header, detached, env) ==
    LET canonicalized == canonicalize_custom_wd(header, env.project_dir, env.exists)
    IN  IF canonicalized = None THEN [tag |-> "panic", unit |-> None]
        ELSE IF canonicalized[1] \in env.headers_only THEN [tag |-> "skip", unit |-> None]
        ELSE IF /\ ~env.ignore_missing_sources
                /\ header_to_unit(canonicalized[1], detached, env.exists) = None
             THEN [tag |-> "panic", unit |-> None]
             ELSE [tag |-> "unit",
                   unit |-> header_to_unit(canonicalized[1], detached, env.exists)]

\* the candidates of one pass (lib.rs 355-372)
scan_candidates(scanned, ignore_files, detached, env) ==
    LET resolved == {resolve_header(h, detached, env) : h \in all_headers(scanned)}
        units == {r.unit[1] : r \in {x \in resolved : x.tag = "unit" /\ x.unit # None}}
    IN  (units \ DOMAIN scanned) \ ignore_files

\* the loop of scan_c_files leaving after its first pass
scan_loop_single_pass(scanned, prev_file_count, ignore_files, detached, env) ==
    IF prev_file_count = Cardinality(DOMAIN scanned) THEN ScanOk(scanned)
    ELSE IF \E h \in all_headers(scanned) : resolve_header(h, detached, env).tag = "panic"
         THEN ScanPanic(scanned)
         ELSE LET candidates == scan_candidates(scanned, ignore_files, detached, env)
              IN  IF \E file \in candidates : get_headers(file, env) = None
                  THEN ScanPanic(scanned)
                  ELSE ScanOk([k \in DOMAIN scanned \cup candidates |->
                                  IF k \in DOMAIN scanned THEN scanned[k]
                                  ELSE get_headers(k, env)[1]])

\* the loop of scan_c_files leaving as soon as a pass added at most one key
RECURSIVE scan_loop_short(_, _, _, _, _)
scan_loop_short(scanned, prev_file_count, ignore_files, detached, env) ==
    IF prev_file_count + 1 >= Cardinality(DOMAIN scanned) THEN ScanOk(scanned)
    ELSE IF \E h \in all_headers(scanned) : resolve_header(h, detached, env).tag = "panic"
         THEN ScanPanic(scanned)
         ELSE LET candidates == scan_candidates(scanned, ignore_files, detached, env)
              IN  IF \E file \in candidates : get_headers(file, env) = None
                  THEN ScanPanic(scanned)
                  ELSE scan_loop_short(
                           [k \in DOMAIN scanned \cup candidates |->
                               IF k \in DOMAIN scanned THEN scanned[k]
                               ELSE get_headers(k, env)[1]],
                           Cardinality(DOMAIN scanned), ignore_files, detached, env)

\* the while loop of lib.rs 353-384
RECURSIVE scan_loop(_, _, _, _, _)
scan_loop(scanned, prev_file_count, ignore_files, detached, env) ==
    IF prev_file_count = Cardinality(DOMAIN scanned) THEN ScanOk(scanned)
    ELSE IF \E h \in all_headers(scanned) : resolve_header(h, detached, env).tag = "panic"
         THEN ScanPanic(scanned)
         ELSE LET candidates == scan_candidates(scanned, ignore_files, detached, env)
              IN  IF \E file \in candidates : get_headers(file, env) = None
                  THEN ScanPanic(scanned)
                  ELSE scan_loop([k \in DOMAIN scanned \cup candidates |->
                                     IF k \in DOMAIN scanned THEN scanned[k]
                                     ELSE get_headers(k, env)[1]],
                                 Cardinality(DOMAIN scanned), ignore_files, detached, env)

scan_c_files(root_files, ignore_files, env) ==
    LET roots == {canonicalize_custom_wd(file, env.project_dir, env.exists) : file \in root_files}
    IN  IF \E i \in 1..Len(env.detached_headers) :
              \/ canonical_mappings(env)[i].includes = None
              \/ canonical_mappings(env)[i].sources = None
        THEN ScanPanic(<< >>)
        ELSE IF None \in roots \/ \E r \in roots \ {None} : get_headers(r[1], env) = None
        THEN ScanPanic(<< >>)
        ELSE scan_loop([k \in {r[1] : r \in roots} |-> get_headers(k, env)[1]],
                       0, ignore_files, unwrapped_mappings(env), env)

----------------------------------------------------------------------------
(* lib.rs: OsSpec::linux, Profile, target naming *)

\* TargetKind::get_spec / Library::build 733-736: the TargetSpec of a target
spec_of(target, link) ==
    IF target.kind = "bin" THEN "bin"
    ELSE IF link = "Dynamic" THEN "dynamic" ELSE "static"

\* OsSpec::linux: extension, required compile and link options per TargetSpec
spec_extension(spec) ==
    CASE spec = "bin" -> "" [] spec = "static" -> "a" [] spec = "dynamic" -> "so"

required_compile_options(spec) == IF spec = "dynamic" THEN <<"-fPIC">> ELSE << >>

required_link_options(spec) == IF spec = "dynamic" THEN <<"-shared">> ELSE << >>

\* Profile::compiler with the default compilers
profile_compiler(compiler) == IF compiler = "Cpp" THEN "c++" ELSE "cc"

\* Binary::build 695-696 and Library::build 730-737: the artifact's path
artifact_path(target_dir, target, link) ==
    set_extension(
        join(target_dir,
             << [pre |-> (IF target.kind = "lib" THEN "lib" ELSE ""),
                 n |-> target.name, e |-> ""] >>),
        spec_extension(spec_of(target, link)))

\* the object path the compile and link steps use for a key of the closure
obj_of(target_dir, project_dir, key) ==
    get_obj_path(target_dir, project_dir, unit_to_obj(key)[1])

\* Binary::build 705-709, Library::build 747-758: the program that links
link_program(spec, cpp) ==
    IF spec = "static" THEN "ar"
    ELSE IF cpp THEN profile_compiler("Cpp") ELSE profile_compiler("C")

----------------------------------------------------------------------------
(* The world of the build specification: one project in /p, built as main.rs
   does it (target directory target/debug relative to the working directory,
   which is the project directory). *)

MaxTime == 1

project_dir == <<ROOT, Comp("p", "")>>

target_dir == <<Comp("target", ""), Comp("debug", "")>>

\* main.rs 22: the working directory of the process, which relative paths
\* handed to the filesystem are resolved against
current_dir == project_dir

Rel(n, e) == <<Comp("src", ""), Comp(n, e)>>

Src(n, e) == project_dir \o Rel(n, e)

\* the sources whose mtime the user advances
Touchable == {Src("m", "c"), Src("u", "h")}

\* m.c includes a.h, u.h and k.h; a.c and a.cpp include a.h; u.cpp includes
\* u.h.  k.h has no unit.
InitMM ==
    (Src("m", "c") :> {Src("a", "h"), Src("u", "h"), Src("k", "h")})
    @@ (Src("a", "c") :> {Src("a", "h")})
    @@ (Src("a", "cpp") :> {Src("a", "h")})
    @@ (Src("u", "cpp") :> {Src("u", "h")})

InitSources(two_units) ==
    {Src("m", "c"), Src("a", "c"), Src("a", "h"), Src("u", "h"), Src("u", "cpp"),
     Src("k", "h")} \cup (IF two_units THEN {Src("a", "cpp")} ELSE {})

Library(roots, no_static, no_dynamic) ==
    [kind |-> "lib", name |-> "l", root_files |-> roots, ignore_files |-> {},
     compile_options |-> << >>, link_options |-> <<"-lm">>,
     disallow_static |-> no_static, disallow_dynamic |-> no_dynamic,
     public_headers |-> << >>]

Binary(roots) ==
    [kind |-> "bin", name |-> "app", root_files |-> roots, ignore_files |-> {},
     compile_options |-> <<"-DAPP">>, link_options |-> << >>,
     disallow_static |-> FALSE, disallow_dynamic |-> FALSE]

\* the manifests: library l of a.c (and a.cpp when it exists), binary app of m.c
Manifests(two_units) ==
    {[lib |-> <<Library({Rel("a", "c")} \cup (IF two_units THEN {Rel("a", "cpp")} ELSE {}),
                        TRUE, FALSE)>>,
      bin |-> <<Binary({Rel("m", "c")})>>,
      ignore_missing_sources |-> ignore,
      detached_headers |-> << >>,
      post_compile |-> post,
      headers_only |-> ho,
      include_dirs |-> <<<<Comp("src", "")>>>>,
      dependencies |-> << >>] :
        ignore \in BOOLEAN, post \in {None, Some("hook")}, ho \in {{}, {Rel("k", "h")}}}

----------------------------------------------------------------------------
(* Project::build *)

\* include_option 228-232 and the other arguments of a command: an option
\* with the path pushed onto it
Arg(opt, path) == [opt |-> opt, path |-> path]

include_option(dir) == Arg("-I", dir)

Command(kind, target, prog, unit, out, objects, spec) ==
    [kind |-> kind, target |-> target, prog |-> prog, unit |-> unit, out |-> out,
     objs |-> objects, spec |-> spec]

RECURSIVE SeqOfSet(_)
SeqOfSet(S) ==
    IF S = {} THEN << >>
    ELSE LET x == CHOOSE y \in S : TRUE IN <<x>> \o SeqOfSet(S \ {x})

\* a command that was spawned, with its arguments in order and how it ended:
\* "ok", "failed" (nonzero exit) or "not waited" (the child was never waited
\* for)
Spawned(cmd, args, status) ==
    [kind |-> cmd.kind, target |-> cmd.target, prog |-> cmd.prog, unit |-> cmd.unit,
     out |-> cmd.out, objs |-> cmd.objs, spec |-> cmd.spec,
     args |-> args, status |-> status]

\* plain options as arguments
Opts(options) == [i \in 1..Len(options) |-> Arg(options[i], << >>)]

\* OsString::push of each option onto one argument (link_static 764-767)
RECURSIVE push_all(_, _)
push_all(arg, options) ==
    IF options = << >> THEN arg ELSE push_all(arg \o Head(options), Tail(options))

\* CompileOptions::debug 497-499 through Profile::debug: the profile's
\* compile options
profile_compile_options == <<"-g", "-DDEBUG">>

\* get_headers 320-326: the -MM command of one unit
mm_command(target, unit) ==
    Command("mm", target.name, profile_compiler(determine_from_file(unit)[1]),
            unit, << >>, << >>, "")

mm_args(unit) ==
    benv.include_dirs \o Opts(profile_compile_options)
    \o <<Arg("-MM", << >>), Arg("", unit)>>

\* Target::compile 629-634: the compile options of one unit
compile_options(target, spec) ==
    Opts(required_compile_options(spec)) \o Opts(profile_compile_options)
    \o Opts(target.compile_options) \o <<include_option(benv.include_dir)>>

\* Target::compile 638-644: the arguments of the compile command
compile_args(target, spec, path, output) ==
    benv.include_dirs \o compile_options(target, spec)
    \o <<Arg("-c", << >>), Arg("-o", << >>), Arg("", output), Arg("", path)>>

\* Target::compile 651-656: the arguments of the post_compile command
post_args(target, spec, path, output, compiler) ==
    <<Arg("", output), Arg("", path), Arg(compiler, << >>)>>
    \o benv.include_dirs \o compile_options(target, spec)

\* the object arguments of a link command, in the order of the map
object_args(closure) ==
    [i \in 1..Cardinality(DOMAIN closure) |->
        Arg("", obj_of(benv.target_dir, benv.project_dir, SeqOfSet(DOMAIN closure)[i]))]

\* link_using_compiler 675-681
link_args(options, output, closure) ==
    Opts(options) \o <<Arg("-o", << >>), Arg("", output)>> \o object_args(closure)
    \o benv.lib_dirs \o benv.libs

\* link_static 764-773
ar_args(options, output, closure) ==
    <<Arg(push_all("crs", options), << >>), Arg("", output)>> \o object_args(closure)

\* the build going on whatever the command's exit status
propagate_ignored(status, continue) == continue

\* a failed command giving up the target it belongs to and nothing more
propagate_to_target(status, continue) == IF status = "ok" THEN continue ELSE "next"

\* the ? after spawn, wait and failure_into_error: the build goes on only
\* when the command exited with success
propagate(status, continue) == IF status = "ok" THEN continue ELSE "failed"

\* no project is being built
NoEnv ==
    [project_dir |-> << >>, target_dir |-> << >>, include_dir |-> << >>,
     include_dirs |-> << >>, lib_dirs |-> << >>, libs |-> << >>, headers_only |-> {}]

\* build_dependencies 918-923: <target_dir>/deps/include, canonicalized
deps_include_dir(tdir) ==
    Abs(join(tdir, <<Comp("deps", ""), Comp("include", "")>>), current_dir)

\* with_build_env 965-970 fails: a path of headers_only or include_dirs does
\* not exist
env_error(proj, pdir, filesystem) ==
    \/ \E h \in proj.headers_only :
          canonicalize_custom_wd(h, pdir, DOMAIN filesystem) = None
    \/ \E i \in 1..Len(proj.include_dirs) :
          canonicalize_custom_wd(proj.include_dirs[i], pdir, DOMAIN filesystem) = None

\* with_build_env 963-988: the BuildEnv, given what build_dependencies returned
with_build_env(proj, tdir, pdir, extra_include, lib_dirs, libs, filesystem) ==
    [project_dir |-> pdir,
     target_dir |-> tdir,
     include_dir |-> deps_include_dir(tdir),
     include_dirs |->
        [i \in 1..Len(proj.include_dirs) |->
            include_option(canonicalize_custom_wd(proj.include_dirs[i], pdir,
                                                  DOMAIN filesystem)[1])]
        \o (IF extra_include = None THEN << >>
            ELSE <<include_option(extra_include[1])>>),
     lib_dirs |-> lib_dirs,
     libs |-> libs,
     headers_only |-> {canonicalize_custom_wd(h, pdir, DOMAIN filesystem)[1] :
                          h \in proj.headers_only}]

\* the BuildEnv as the scanner reads it, with the world the compiler runs in
build_env(proj, world_mm, filesystem) ==
    [project_dir |-> benv.project_dir,
     detached_headers |-> proj.detached_headers,
     headers_only |-> benv.headers_only,
     ignore_missing_sources |-> proj.ignore_missing_sources,
     mm |-> world_mm,
     exists |-> DOMAIN filesystem]

Stopped == pc \in {"idle", "done", "failed", "panicked"}

Modified == ModifiedSources(target_time, files, current_dir, fs)

\* main.rs 19-26: each run of gocar loads the manifest of the working
\* directory again, whatever sub-project the run before it ended in
top_project == IF stack = << >> THEN project ELSE stack[1].project

top_linkage == IF stack = << >> THEN linkage ELSE stack[1].linkage

ResetBuild ==
    /\ pc' = "idle"
    /\ project' = top_project
    /\ linkage' = top_linkage
    /\ benv' = NoEnv
    /\ stack' = << >>
    /\ queue' = << >>
    /\ cur' = None
    /\ target_time' = None
    /\ files' = << >>
    /\ todo' = {}
    /\ up_to_date' = TRUE
    /\ has_cpp' = FALSE
    /\ cmds' = << >>

\* the clock advances between builds
Tick ==
    /\ Stopped
    /\ now < MaxTime
    /\ now' = now + 1
    /\ ResetBuild
    /\ UNCHANGED <<call, ret, fs, mm, objs>>

\* the user saves a source: its mtime becomes the current time
Touch(f) ==
    /\ Stopped
    /\ f \in DOMAIN fs
    /\ fs[f] < now
    /\ fs' = [fs EXCEPT ![f] = now]
    /\ ResetBuild
    /\ UNCHANGED <<call, ret, now, mm, objs>>

\* init_default_profiles 906-908: the profiles of every project
profiles == {"release", "debug"}

\* with_build_env 962-963 entering build_dependencies 918-923: the arguments
\* of the call and what build_dependencies has collected so far, held in the
\* shape of the BuildEnv they end up in (extra_include as its include option)
deps_env(tdir, pdir, extra_include) ==
    [project_dir |-> pdir,
     target_dir |-> tdir,
     include_dir |-> deps_include_dir(tdir),
     include_dirs |-> IF extra_include = None THEN << >>
                      ELSE <<include_option(extra_include[1])>>,
     lib_dirs |-> << >>,
     libs |-> << >>,
     headers_only |-> {}]

\* Project::build 1009-1014 up to the first dependency or, for a project
\* without dependencies, up to the call of build_libs: the profile lookup of
\* with_build_env, build_dependencies on no dependency, the BuildEnv; then
\* the libraries and the binaries are to be built
Build ==
    /\ Stopped
    /\ cmds' = << >>
    /\ cur' = None
    /\ target_time' = None
    /\ files' = << >>
    /\ todo' = {}
    /\ up_to_date' = TRUE
    /\ has_cpp' = FALSE
    /\ stack' = << >>
    /\ project' = top_project
    /\ linkage' = top_linkage
    /\ IF call.profile_name \notin profiles
       THEN /\ pc' = "failed"
            /\ benv' = NoEnv
            /\ queue' = << >>
       ELSE IF top_project.dependencies # << >>
       THEN /\ pc' = "deps"
            /\ benv' = deps_env(target_dir, project_dir, None)
            /\ queue' = << >>
       ELSE /\ queue' = top_project.lib \o top_project.bin
            /\ IF env_error(top_project, project_dir, fs)
               THEN /\ pc' = "failed"
                    /\ benv' = NoEnv
               ELSE /\ pc' = "next"
                    /\ benv' = with_build_env(top_project, target_dir, project_dir, None,
                                             << >>, << >>, fs)
    /\ UNCHANGED <<call, ret, fs, now, mm, objs>>

\* Binary::build 695-698 / Library::build 730-740 with Target::compile
\* 615-619: the artifact's mtime, the ignore set, the closure scan; status is
\* how the first -MM child of the scan ends ("not waited": reading its
\* output failed, get_headers 329-335)
BeginTarget(status) ==
    /\ pc = "next"
    /\ queue # << >>
    /\ LET target == Head(queue)
           ignore == {canonicalize(f, current_dir, DOMAIN fs) : f \in target.ignore_files}
           scan == scan_c_files(target.root_files, {i[1] : i \in ignore \ {None}},
                                build_env(project, mm, fs))
           first == SeqOfSet({Abs(f, benv.project_dir) : f \in target.root_files})[1]
       IN  /\ cur' = Some(target)
           /\ queue' = Tail(queue)
           /\ target_time' = get_file_mtime(artifact_path(benv.target_dir, target, linkage),
                                            current_dir, fs)
           /\ up_to_date' = TRUE
           /\ has_cpp' = FALSE
           /\ status # "ok" =>
                 None \notin ignore /\ target.root_files # {} /\ first \in DOMAIN fs
           /\ IF None \in ignore
              THEN /\ pc' = "failed"
                   /\ files' = << >>
                   /\ todo' = {}
                   /\ cmds' = cmds
              ELSE IF status # "ok"
              THEN /\ pc' = "failed"
                   /\ files' = << >>
                   /\ todo' = {}
                   /\ cmds' = Append(cmds, Spawned(mm_command(target, first),
                                                  mm_args(first), status))
              ELSE /\ pc' = IF scan.kind = "ok" THEN "compile" ELSE "panicked"
                   /\ files' = IF scan.kind = "ok" THEN scan.files ELSE << >>
                   /\ todo' = IF scan.kind = "ok" THEN DOMAIN scan.files ELSE {}
                   /\ cmds' = cmds \o [i \in 1..Cardinality(DOMAIN scan.files) |->
                                Spawned(mm_command(target, SeqOfSet(DOMAIN scan.files)[i]),
                                        mm_args(SeqOfSet(DOMAIN scan.files)[i]), "ok")]
    /\ UNCHANGED <<call, ret, fs, now, mm, objs, project, linkage, benv, stack>>

\* one turn of the for loop of Target::compile 620-661: ModifiedSources::next
\* yields a key of the map, in the map's unspecified order, and the unit is
\* compiled; status is how the compiler (and the post_compile hook) exits
CompileUnit(path, status) ==
    /\ pc = "compile"
    /\ path \in todo \cap Modified
    /\ status = "post_failed" => project.post_compile # None
    /\ LET target == cur[1]
           spec == spec_of(target, linkage)
           output == obj_of(benv.target_dir, benv.project_dir, path)
           compiler == determine_from_file(path)[1]
           compile == Spawned(Command("compile", target.name, profile_compiler(compiler),
                                      path, output, << >>, spec),
                              compile_args(target, spec, path, output),
                              IF status = "compile_failed" THEN "failed" ELSE "ok")
           post == Spawned(Command("post_compile", target.name, project.post_compile[1],
                                   path, output, << >>, spec),
                           post_args(target, spec, path, output, profile_compiler(compiler)),
                           IF status = "post_failed" THEN "failed" ELSE "ok")
       IN  /\ up_to_date' = FALSE
           /\ has_cpp' = (has_cpp \/ compiler = "Cpp")
           /\ cmds' = IF status # "compile_failed" /\ project.post_compile # None
                      THEN cmds \o <<compile, post>>
                      ELSE Append(cmds, compile)
           /\ objs' = IF status = "compile_failed" THEN objs
                      ELSE (output :> [unit |-> path,
                                       options |-> compile_options(target, spec)])
                           @@ objs
           /\ pc' = propagate(status, "compile")
           /\ todo' = todo \ {path}
    /\ UNCHANGED <<call, ret, fs, now, mm, project, linkage, benv, stack, queue, cur,
                   target_time, files>>

\* the iterator is exhausted and nothing was compiled: Binary::build 700-703,
\* Library::build 742-745
UpToDate ==
    /\ pc = "compile"
    /\ todo \cap Modified = {}
    /\ up_to_date
    /\ pc' = "next"
    /\ todo' = {}
    /\ UNCHANGED <<call, ret, fs, now, mm, objs, project, linkage, benv, stack, queue, cur,
                   target_time, files, up_to_date, has_cpp, cmds>>

\* the iterator is exhausted after a compile: Binary::build 705-712,
\* Library::build 747-759 with link_using_compiler and link_static; status is
\* how the linker or archiver exits
Link(status) ==
    /\ pc = "compile"
    /\ todo \cap Modified = {}
    /\ ~up_to_date
    /\ LET target == cur[1]
           spec == spec_of(target, linkage)
           output == artifact_path(benv.target_dir, target, linkage)
           options == required_link_options(spec) \o target.link_options
           link == Spawned(Command(IF spec = "static" THEN "ar" ELSE "link", target.name,
                                   link_program(spec, has_cpp), << >>, output,
                                   [k \in DOMAIN files |->
                                       obj_of(benv.target_dir, benv.project_dir, k)],
                                   spec),
                           IF spec = "static" THEN ar_args(options, output, files)
                           ELSE link_args(options, output, files),
                           status)
       IN  /\ cmds' = Append(cmds, link)
           /\ fs' = IF status = "ok"
                    THEN (Abs(output, current_dir) :> now) @@ fs
                    ELSE fs
           /\ pc' = propagate(status, "next")
    /\ todo' = {}
    /\ UNCHANGED <<call, ret, now, mm, objs, project, linkage, benv, stack, queue, cur,
                   target_time, files, up_to_date, has_cpp>>

\* build_bins returned: Project::build is done
Finish ==
    /\ pc = "next"
    /\ queue = << >>
    /\ stack = << >>
    /\ pc' = "done"
    /\ UNCHANGED <<call, ret, fs, now, mm, objs, project, linkage, benv, stack, queue, cur,
                   target_time, files, todo, up_to_date, has_cpp, cmds>>

NotRun == [kind |-> "not run"]

\* gocar build <profile>: main.rs 19-26
BuildCall(profile_name) == [op |-> "build", profile_name |-> profile_name]

\* no build is running and none has run
NoBuild ==
    /\ pc = "idle"
    /\ benv = NoEnv
    /\ stack = << >>
    /\ queue = << >>
    /\ cur = None
    /\ target_time = None
    /\ files = << >>
    /\ todo = {}
    /\ up_to_date = TRUE
    /\ has_cpp = FALSE
    /\ cmds = << >>

Init ==
    /\ call = BuildCall("debug")
    /\ ret = NotRun
    /\ now = 0
    /\ mm = InitMM
    /\ objs = << >>
    /\ \E two_units \in BOOLEAN :
          /\ fs = [f \in InitSources(two_units) |-> 0]
          /\ project \in Manifests(two_units)
    /\ linkage \in {"Static", "Dynamic"}
    /\ NoBuild

Next ==
    \/ Tick
    \/ \E f \in Touchable : Touch(f)
    \/ Build
    \/ \E status \in {"ok", "failed", "not waited"} : BeginTarget(status)
    \/ \E path \in todo, status \in {"ok", "compile_failed", "post_failed"} :
          CompileUnit(path, status)
    \/ UpToDate
    \/ \E status \in {"ok", "failed"} : Link(status)
    \/ Finish

Spec == Init /\ [][Next]_vars

----------------------------------------------------------------------------
(* Builds interleaved with an edit that changes what a unit includes: the
   library l of a.c (and of u.cpp, or not) and the binary app of m.c in one
   project, m.c including a.h only until the user adds the include of u.h. *)

EditMM ==
    (Src("m", "c") :> {Src("a", "h")})
    @@ (Src("a", "c") :> {Src("a", "h")})
    @@ (Src("u", "cpp") :> {Src("u", "h")})

EditSources ==
    {Src("m", "c"), Src("a", "c"), Src("a", "h"), Src("u", "h"), Src("u", "cpp")}

EditManifests ==
    {[lib |-> <<Library(roots, FALSE, FALSE)>>,
      bin |-> <<Binary({Rel("m", "c")})>>,
      ignore_missing_sources |-> FALSE,
      detached_headers |-> << >>,
      post_compile |-> None,
      headers_only |-> {},
      include_dirs |-> <<<<Comp("src", "")>>>>,
      dependencies |-> << >>] :
        roots \in {{Rel("a", "c")}, {Rel("a", "c"), Rel("u", "cpp")}}}

\* the user adds #include "u.h" to m.c and saves it: from now on -MM prints
\* u.h for m.c, and the mtime of m.c is the current time
Edit ==
    /\ Stopped
    /\ fs[Src("m", "c")] < now
    /\ Src("u", "h") \notin mm[Src("m", "c")]
    /\ mm' = [mm EXCEPT ![Src("m", "c")] = @ \cup {Src("u", "h")}]
    /\ fs' = [fs EXCEPT ![Src("m", "c")] = now]
    /\ ResetBuild
    /\ UNCHANGED <<call, ret, now, objs>>

InitEdit ==
    /\ call = BuildCall("debug")
    /\ ret = NotRun
    /\ now = 0
    /\ mm = EditMM
    /\ objs = << >>
    /\ fs = [f \in EditSources |-> 0]
    /\ project \in EditManifests
    /\ linkage \in {"Static", "Dynamic"}
    /\ NoBuild

NextEdit ==
    \/ Tick
    \/ \E f \in Touchable : Touch(f)
    \/ Edit
    \/ Build
    \/ \E status \in {"ok", "failed", "not waited"} : BeginTarget(status)
    \/ \E path \in todo, status \in {"ok", "compile_failed"} : CompileUnit(path, status)
    \/ UpToDate
    \/ \E status \in {"ok", "failed"} : Link(status)
    \/ Finish

SpecEdit == InitEdit /\ [][NextEdit]_vars

----------------------------------------------------------------------------
(* Project::build_dependencies: a project in /p whose binary app uses the
   library foo of the project in /p/dep.  The parent may hand the dependency
   a config header; foo.h is the public header of foo. *)

DepDir == <<Comp("dep", "")>>

DepSrc(n, e) == project_dir \o DepDir \o Rel(n, e)

\* <target_dir>/deps/include/foo, where the headers of foo are staged
StagedDir == deps_include_dir(target_dir) \o <<Comp("foo", "")>>

Staged(n, e) == StagedDir \o <<Comp(n, e)>>

ConfigHeader == <<Comp("cfg", "h")>>

DepLibrary ==
    [kind |-> "lib", name |-> "foo", root_files |-> {Rel("foo", "c")}, ignore_files |-> {},
     compile_options |-> << >>, link_options |-> << >>,
     disallow_static |-> FALSE, disallow_dynamic |-> FALSE,
     public_headers |-> <<<<Comp("foo", "h")>>>>]

\* /p/dep/Gocar.toml
DepProject ==
    [lib |-> <<DepLibrary>>,
     bin |-> << >>,
     ignore_missing_sources |-> FALSE,
     detached_headers |-> << >>,
     post_compile |-> Some("hook"),
     headers_only |-> {},
     include_dirs |-> <<<<Comp("src", "")>>>>,
     dependencies |-> << >>]

\* a [dependencies.<name>] entry with a path only
NamedDependency(name, path) ==
    [name |-> name, path |-> path, linkage |-> None, config_headers |-> << >>]

\* a project of one library <name> (root src/<name>.c) and one dependency
LibraryProject(name, dep) ==
    [lib |-> <<[kind |-> "lib", name |-> name, root_files |-> {Rel(name, "c")},
                ignore_files |-> {}, compile_options |-> << >>, link_options |-> << >>,
                disallow_static |-> FALSE, disallow_dynamic |-> FALSE,
                public_headers |-> << >>]>>,
     bin |-> << >>,
     ignore_missing_sources |-> FALSE,
     detached_headers |-> << >>,
     post_compile |-> None,
     headers_only |-> {},
     include_dirs |-> <<<<Comp("src", "")>>>>,
     dependencies |-> <<dep>>]

ADir == project_dir \o <<Comp("a", "")>>

BDir == project_dir \o <<Comp("b", "")>>

\* the Gocar.toml files of the world, by directory: /p/dep holds foo, and
\* /p/a and /p/b hold two projects that name each other as a dependency
GocarToml ==
    ((project_dir \o DepDir) :> DepProject)
    @@ (ADir :> LibraryProject("a", NamedDependency("b", BDir)))
    @@ (BDir :> LibraryProject("b", NamedDependency("a", ADir)))

\* a [dependencies.foo] entry of /p/Gocar.toml
Dependency(path, link, config_headers) ==
    [name |-> "foo", path |-> path, linkage |-> link, config_headers |-> config_headers]

\* /p/Gocar.toml: the headers of the staged directory have no source unit
DepsManifests ==
    {[lib |-> << >>,
      bin |-> <<Binary({Rel("m", "c")})>>,
      ignore_missing_sources |-> TRUE,
      detached_headers |-> << >>,
      post_compile |-> None,
      headers_only |-> {},
      include_dirs |-> <<<<Comp("src", "")>>>>,
      dependencies |-> <<Dependency(path, link, config)>>] :
        path \in {DepDir, <<Comp("gone", "")>>},
        link \in {None, Some("Static")},
        config \in {<< >>, <<ConfigHeader>>, <<<<Comp("gone", "h")>>>>}}

\* m.c includes the staged foo.h; foo.c includes foo.h and, when the parent
\* hands it over, the staged cfg.h
DepsMM(with_config) ==
    (Src("m", "c") :> {Staged("foo", "h")})
    @@ (DepSrc("foo", "c") :>
           ({DepSrc("foo", "h")} \cup (IF with_config THEN {Staged("cfg", "h")} ELSE {})))

DepsSources ==
    {Src("m", "c"), project_dir \o ConfigHeader, DepSrc("foo", "c"), DepSrc("foo", "h")}

\* Project::load_from_dir 894-904: the manifest of a directory, which is taken
\* from the working directory of the process when relative; None is the Err
\* of file_open
load_from_dir(directory) ==
    IF Abs(directory, current_dir) \in DOMAIN GocarToml
    THEN Some(GocarToml[Abs(directory, current_dir)])
    ELSE None

\* copy_file / std::fs::copy over a list of [from, to], stopping at the first
\* error: [ok, fs] with the copies done until then, each with the mtime time
RECURSIVE copy_files(_, _, _)
copy_files(pairs, filesystem, time) ==
    IF pairs = << >> THEN [ok |-> TRUE, fs |-> filesystem]
    ELSE IF Abs(Head(pairs).from, current_dir) \notin DOMAIN filesystem
    THEN [ok |-> FALSE, fs |-> filesystem]
    ELSE copy_files(Tail(pairs),
                    (Abs(Head(pairs).to, current_dir) :> time) @@ filesystem, time)

\* Dependency::copy_config_headers 837-854: what is copied where
config_header_copies(dep, pdir, dest) ==
    [i \in 1..Len(dep.config_headers) |->
        [from |-> IF is_relative(dep.config_headers[i])
                  THEN join(pdir, dep.config_headers[i])
                  ELSE dep.config_headers[i],
         to |-> join(dest, <<dep.config_headers[i][Len(dep.config_headers[i])]>>)]]

\* Project::copy_headers 1022-1032 of the libraries from index i on
RECURSIVE public_header_copies(_, _, _, _)
public_header_copies(proj, i, tdir, pdir) ==
    IF i > Len(proj.lib) THEN << >>
    ELSE [j \in 1..Len(proj.lib[i].public_headers) |->
             [from |-> join(join(pdir, <<Comp("src", "")>>), proj.lib[i].public_headers[j]),
              to |-> join(tdir, <<proj.lib[i].public_headers[j]
                                      [Len(proj.lib[i].public_headers[j])]>>)]]
         \o public_header_copies(proj, i + 1, tdir, pdir)

\* build_dependencies 951-955 leaving out the -l arguments
dep_libs_none(proj) == << >>

\* build_dependencies 951-955: one -l<name> for each library of the sub-project
dep_libs(proj) == [i \in 1..Len(proj.lib) |-> Arg("-l" \o proj.lib[i].name, << >>)]

\* the depth of the nesting of build_dependencies the model follows
MaxNesting == 4

\* build_dependencies 925-940: one turn of the loop up to the call of
\* build_libraries, where with_build_env 962-963 enters build_dependencies of
\* the sub-project.  self.dependencies is a HashMap; this world has one
\* dependency, so its order does not matter.
EnterDependency ==
    /\ pc = "deps"
    /\ Len(stack) < MaxNesting
    /\ Len(benv.lib_dirs) < Len(project.dependencies)
    /\ LET dep == project.dependencies[Len(benv.lib_dirs) + 1]
           loaded == load_from_dir(dep.path)
           dep_lib_dir == join(benv.target_dir,
                               <<Comp("deps", ""), Comp("lib", ""), Comp(dep.name, "")>>)
           dep_include_dir == join(benv.include_dir, <<Comp(dep.name, "")>>)
           copies == config_header_copies(dep, benv.project_dir, dep_include_dir)
           copied == copy_files(copies, fs, now)
           dep_path == IF is_relative(dep.path) THEN join(benv.project_dir, dep.path)
                       ELSE dep.path
       IN  IF loaded = None
           THEN /\ pc' = "failed"
                /\ UNCHANGED <<fs, stack, project, linkage, benv>>
           ELSE IF ~copied.ok
           THEN /\ pc' = "failed"
                /\ fs' = copied.fs
                /\ UNCHANGED <<stack, project, linkage, benv>>
           ELSE /\ pc' = "deps"
                /\ fs' = copied.fs
                /\ stack' = Append(stack, [project |-> project, linkage |-> linkage,
                                           benv |-> benv, dep_lib_dir |-> dep_lib_dir,
                                           dep_include_dir |-> dep_include_dir,
                                           dep_path |-> dep_path])
                /\ project' = [loaded[1] EXCEPT !.headers_only =
                                  @ \cup {copies[i].to : i \in 1..Len(copies)}]
                /\ linkage' = IF dep.linkage = None THEN linkage ELSE dep.linkage[1]
                /\ benv' = deps_env(dep_lib_dir, dep_path,
                                    IF Len(dep.config_headers) > 0
                                    THEN Some(dep_include_dir) ELSE None)
    /\ UNCHANGED <<call, ret, now, mm, objs, queue, cur, target_time, files, todo,
                   up_to_date, has_cpp, cmds>>

\* with_build_env 964-990 once build_dependencies returned: the BuildEnv, and
\* the targets the closure builds (Project::build 1010-1013, build_libraries
\* 1017-1019)
DependenciesBuilt ==
    /\ pc = "deps"
    /\ Len(benv.lib_dirs) = Len(project.dependencies)
    /\ IF env_error(project, benv.project_dir, fs)
       THEN /\ pc' = "failed"
            /\ UNCHANGED <<benv, queue>>
       ELSE /\ pc' = "next"
            /\ benv' = with_build_env(project, benv.target_dir, benv.project_dir,
                                      IF benv.include_dirs = << >> THEN None
                                      ELSE Some(benv.include_dirs[1].path),
                                      benv.lib_dirs, benv.libs, fs)
            /\ queue' = IF stack = << >> THEN project.lib \o project.bin ELSE project.lib
    /\ UNCHANGED <<call, ret, fs, now, mm, objs, project, linkage, stack, cur,
                   target_time, files, todo, up_to_date, has_cpp, cmds>>

\* build_dependencies 941-956: build_libraries returned, the public headers
\* are copied, and the -L and -l arguments are pushed
LeaveDependency ==
    /\ pc = "next"
    /\ queue = << >>
    /\ stack # << >>
    /\ LET frame == stack[Len(stack)]
           copied == copy_files(public_header_copies(project, 1, frame.dep_include_dir,
                                                     frame.dep_path),
                                fs, now)
       IN  /\ fs' = copied.fs
           /\ IF ~copied.ok
              THEN /\ pc' = "failed"
                   /\ UNCHANGED <<stack, project, linkage, benv>>
              ELSE /\ pc' = "deps"
                   /\ stack' = SubSeq(stack, 1, Len(stack) - 1)
                   /\ project' = frame.project
                   /\ linkage' = frame.linkage
                   /\ benv' = [frame.benv EXCEPT
                                  !.lib_dirs = Append(@, Arg("-L", frame.dep_lib_dir)),
                                  !.libs = @ \o dep_libs(project)]
    /\ UNCHANGED <<call, ret, now, mm, objs, queue, cur, target_time, files, todo,
                   up_to_date, has_cpp, cmds>>

InitDeps ==
    /\ call \in {BuildCall("debug"), BuildCall("fast")}
    /\ ret = NotRun
    /\ now = 0
    /\ objs = << >>
    /\ fs = [f \in DepsSources |-> 0]
    /\ project \in DepsManifests
    /\ mm = DepsMM(project.dependencies[1].config_headers = <<ConfigHeader>>)
    /\ linkage \in {"Static", "Dynamic"}
    /\ NoBuild

NextDeps ==
    \/ Tick
    \/ Build
    \/ EnterDependency
    \/ DependenciesBuilt
    \/ LeaveDependency
    \/ \E status \in {"ok", "failed", "not waited"} : BeginTarget(status)
    \/ \E path \in todo, status \in {"ok", "compile_failed", "post_failed"} :
          CompileUnit(path, status)
    \/ UpToDate
    \/ \E status \in {"ok", "failed"} : Link(status)
    \/ Finish

SpecDeps == InitDeps /\ [][NextDeps]_vars

----------------------------------------------------------------------------
(* Dependency declarations of any shape: the project in /p depends either on
   foo of /p/dep, which depends on nothing, or on a of /p/a, which depends on
   b of /p/b, which depends on a. *)

\* /p/Gocar.toml
MutualManifests ==
    {[lib |-> << >>,
      bin |-> <<Binary({Rel("m", "c")})>>,
      ignore_missing_sources |-> TRUE,
      detached_headers |-> << >>,
      post_compile |-> None,
      headers_only |-> {},
      include_dirs |-> <<<<Comp("src", "")>>>>,
      dependencies |-> <<dep>>] :
        dep \in {Dependency(DepDir, None, << >>),
                 NamedDependency("a", <<Comp("a", "")>>)}}

MutualSources ==
    DepsSources \cup {ADir \o Rel("a", "c"), BDir \o Rel("b", "c")}

InitMutual ==
    /\ call = BuildCall("debug")
    /\ ret = NotRun
    /\ now = 0
    /\ objs = << >>
    /\ fs = [f \in MutualSources |-> 0]
    /\ project \in MutualManifests
    /\ mm = DepsMM(FALSE)
    /\ linkage \in {"Static", "Dynamic"}
    /\ NoBuild

NextMutual ==
    \/ Tick
    \/ Build
    \/ EnterDependency
    \/ DependenciesBuilt
    \/ LeaveDependency
    \/ \E status \in {"ok", "failed", "not waited"} : BeginTarget(status)
    \/ \E path \in todo, status \in {"ok", "compile_failed", "post_failed"} :
          CompileUnit(path, status)
    \/ UpToDate
    \/ \E status \in {"ok", "failed"} : Link(status)
    \/ Finish

SpecMutual == InitMutual /\ [][NextMutual]_vars

----------------------------------------------------------------------------
(* The pure functions on their own: Init draws the inputs of one call from
   bounded sets, the action applies the function. *)

MaxDepth == 2

MaxMappings == 2

Returned(v) == [kind |-> "returned", v |-> v]

\* a world in which no project is built
NoWorld ==
    /\ fs = << >>
    /\ now = 0
    /\ mm = << >>
    /\ objs = << >>
    /\ project = [lib |-> << >>, bin |-> << >>]
    /\ linkage = "Static"
    /\ NoBuild

DirNames == {Comp("a", ""), Comp("b", "")}

DirSeqs == UNION {[1..n -> DirNames] : n \in 0..MaxDepth}

ObjTargets == {<<ROOT, Comp("t", "")>>, <<Comp("target", "")>>}

ObjBases == {<<ROOT>> \o d : d \in DirSeqs}

ObjFiles == {<<ROOT>> \o d \o <<Comp("f", "o")>> : d \in DirSeqs}
            \cup {<<Comp("a", ""), Comp("f", "o")>>, <<Comp("f", "o")>>}

InitObj ==
    /\ call \in [op : {"get_obj_path"}, target : ObjTargets, base : ObjBases,
                  file : ObjFiles]
    /\ ret = NotRun
    /\ NoWorld

ApplyObj ==
    /\ call.op = "get_obj_path"
    /\ ret = NotRun
    /\ ret' = Returned(get_obj_path(call.target, call.base, call.file))
    /\ UNCHANGED <<call, buildVars>>

SpecObj == InitObj /\ [][ApplyObj]_vars

\* header_to_unit: the header /p/inc/d.h, units beside it and in two source
\* directories, and mappings from the include directory (or from an unrelated
\* one) to them
IncDir == <<ROOT, Comp("p", ""), Comp("inc", "")>>

OtherDir == <<ROOT, Comp("p", ""), Comp("other", "")>>

SrcDir(n) == <<ROOT, Comp("p", ""), Comp(n, "")>>

ResHeader == IncDir \o <<Comp("d", "h")>>

ResFiles == {dir \o <<Comp("d", e)>> : dir \in {IncDir, SrcDir("s1"), SrcDir("s2")},
                                        e \in {"c", "cpp"}}

ResMappingPool ==
    {[includes |-> IncDir, sources |-> SrcDir("s1")],
     [includes |-> IncDir, sources |-> SrcDir("s2")],
     [includes |-> OtherDir, sources |-> SrcDir("s1")]}

ResMappings == UNION {[1..n -> ResMappingPool] : n \in 0..MaxMappings}

InitRes ==
    /\ call \in [op : {"header_to_unit"}, path : {ResHeader}, mappings : ResMappings,
                  exists : SUBSET ResFiles]
    /\ ret = NotRun
    /\ NoWorld

ApplyRes ==
    /\ call.op = "header_to_unit"
    /\ ret = NotRun
    /\ ret' = Returned(header_to_unit(call.path, call.mappings, call.exists))
    /\ UNCHANGED <<call, buildVars>>

SpecRes == InitRes /\ [][ApplyRes]_vars

\* ModifiedSources: two sources sharing a header, each file absent or with an
\* mtime up to MaxMtime, the target absent or with such an mtime
MaxMtime == 2

FreshSources ==
    (Src("s", "c") :> {Src("s", "h"), Src("t", "h")})
    @@ (Src("t", "c") :> {Src("t", "h")})

FreshFiles == {Src("s", "c"), Src("t", "c"), Src("s", "h"), Src("t", "h")}

FreshWorlds == UNION {[present -> 0..MaxMtime] : present \in SUBSET FreshFiles}

InitFresh ==
    /\ call \in [op : {"ModifiedSources"},
                  time : {None} \cup {Some(t) : t \in 0..MaxMtime},
                  sources : {FreshSources},
                  filesystem : FreshWorlds]
    /\ ret = NotRun
    /\ NoWorld

ApplyFresh ==
    /\ call.op = "ModifiedSources"
    /\ ret = NotRun
    /\ ret' = Returned(ModifiedSources(call.time, call.sources, project_dir,
                                       call.filesystem))
    /\ UNCHANGED <<call, buildVars>>

SpecFresh == InitFresh /\ [][ApplyFresh]_vars

\* scan_c_files: root m.c; a.h beside a.c and a.cpp, b.h in the detached
\* include directory inc with its unit b.c in src; every unit may include
\* every header
ScanUnits == {Src("m", "c"), Src("a", "c"), Src("a", "cpp"), Src("b", "c")}

IncHeader(n) == project_dir \o <<Comp("inc", ""), Comp(n, "h")>>

ScanHeaders == {Src("a", "h"), IncHeader("b")}

ScanDetached == <<[includes |-> <<Comp("inc", "")>>, sources |-> <<Comp("src", "")>>]>>

InitScan ==
    /\ call \in [op : {"scan_c_files"},
                  root_files : {{Rel("m", "c")}, {Rel("m", "c"), Rel("a", "c")}},
                  ignore_files : {{}, {Src("b", "c")}},
                  env : [project_dir : {project_dir},
                         detached_headers : {<< >>, ScanDetached},
                         headers_only : {{}, {Src("a", "h")}},
                         ignore_missing_sources : BOOLEAN,
                         mm : [ScanUnits -> SUBSET ScanHeaders],
                         exists : {ScanHeaders \cup (ScanUnits \ gone) :
                                      gone \in SUBSET {Src("a", "cpp")}}]]
    /\ ret = NotRun
    /\ NoWorld

ApplyScan ==
    /\ call.op = "scan_c_files"
    /\ ret = NotRun
    /\ ret' = Returned(scan_c_files(call.root_files, call.ignore_files, call.env))
    /\ UNCHANGED <<call, buildVars>>

SpecScan == InitScan /\ [][ApplyScan]_vars

----------------------------------------------------------------------------
(* Claims about the pure functions *)

IsAbsolute(p) == Len(p) > 0 /\ p[1] = ROOT

\* the k-th ancestor of an absolute path (k = 0: the path itself)
Ancestor(p, k) == SubSeq(p, 1, Len(p) - k)

\* the numbers of parent steps at which the ancestor of base is a prefix of file
MatchingSteps(base, file) ==
    {k \in 0..(Len(base) - 1) : IsPrefix(Ancestor(base, k), file)}

FirstStep(base, file) ==
    CHOOSE k \in MatchingSteps(base, file) : \A j \in MatchingSteps(base, file) : k <= j

\* C3: for absolute T, B and F, get_obj_path(T, B, F) is T joined with "<k>_"
\* followed by F relative to the k-th ancestor of B, k the smallest number of
\* parent steps at which that ancestor is a prefix of F; and an "x_" result
\* is produced only when no ancestor of B up to the root is a prefix of F.
TheoremC3 ==
    (call.op = "get_obj_path" /\ ret # NotRun /\ IsAbsolute(call.base)) =>
        /\ (IsAbsolute(call.target) /\ IsAbsolute(call.file)) =>
              /\ MatchingSteps(call.base, call.file) # {}
              /\ LET k == FirstStep(call.base, call.file)
                 IN  ret.v = call.target
                             \o os_push(format_parents(k),
                                        SubSeq(call.file, Len(call.base) - k + 1,
                                               Len(call.file)))
        /\ ret.v[Len(call.target) + 1].pre = "x_" =>
              MatchingSteps(call.base, call.file) = {}

\* an ancestor two levels up is the first that matches, and a cousin directory
\* remains of the file
WitnessC3 ==
    /\ call.op = "get_obj_path"
    /\ ret # NotRun
    /\ IsAbsolute(call.target) /\ IsAbsolute(call.file)
    /\ FirstStep(call.base, call.file) = 2
    /\ Len(call.file) = 3

WithExtension(path, e) == SubSeq(path, 1, Len(path) - 1)
                          \o <<Comp(path[Len(path)].n, e)>>

\* C7: header_to_unit(H, M): both H.c and H.cpp exist: no unit, whatever M;
\* only H.cpp exists: H.cpp; only H.c exists: H.c; whatever M.
TheoremC7 ==
    (call.op = "header_to_unit" /\ ret # NotRun) =>
        LET c == WithExtension(call.path, "c")
            cpp == WithExtension(call.path, "cpp")
        IN  /\ (c \in call.exists /\ cpp \in call.exists) => ret.v = None
            /\ (c \notin call.exists /\ cpp \in call.exists) => ret.v = Some(cpp)
            /\ (c \in call.exists /\ cpp \notin call.exists) => ret.v = Some(c)

\* both units exist beside the header while a mapping leads to a third one
WitnessC7 ==
    /\ call.op = "header_to_unit"
    /\ ret # NotRun
    /\ WithExtension(call.path, "c") \in call.exists
    /\ WithExtension(call.path, "cpp") \in call.exists
    /\ Len(call.mappings) > 0
    /\ call.mappings[1].includes = IncDir
    /\ call.mappings[1].sources \o <<Comp("d", "cpp")>> \in call.exists
    /\ ret.v = None

\* the unit mapping m gives header path: the .cpp file if it exists, else the
\* .c file if it exists, else none
MappedUnit(path, m, exists) ==
    LET r == m.sources \o SubSeq(path, Len(m.includes) + 1, Len(path))
    IN  IF ~IsPrefix(m.includes, path) THEN None
        ELSE IF WithExtension(r, "cpp") \in exists THEN Some(WithExtension(r, "cpp"))
        ELSE IF WithExtension(r, "c") \in exists THEN Some(WithExtension(r, "c"))
        ELSE None

\* C8: when neither H.c nor H.cpp exists, header_to_unit returns the unit of
\* the first mapping whose prefix matches and whose mapped file exists; a
\* mapping whose prefix matches but whose mapped files do not exist is passed
\* over and the later mappings are still tried; "missing" only when no mapping
\* produces an existing file.
ClaimC8 ==
    (/\ call.op = "header_to_unit"
     /\ ret # NotRun
     /\ WithExtension(call.path, "c") \notin call.exists
     /\ WithExtension(call.path, "cpp") \notin call.exists) =>
        LET hits == {i \in 1..Len(call.mappings) :
                        MappedUnit(call.path, call.mappings[i], call.exists) # None}
        IN  IF hits = {} THEN ret.v = None
            ELSE ret.v = MappedUnit(call.path,
                                    call.mappings[CHOOSE i \in hits : \A j \in hits : i <= j],
                                    call.exists)

\* C4: whenever scan_c_files returns a closure map, for every key S and every
\* header h of S: if the canonicalized h is not in headers_only and
\* header_to_unit resolves it to a unit u outside the ignore set, u is a key.
TheoremC4 ==
    (call.op = "scan_c_files" /\ ret # NotRun /\ ret.v.kind = "ok") =>
        \A S \in DOMAIN ret.v.files :
            \A h \in ret.v.files[S] :
                LET canonical == Abs(h, call.env.project_dir)
                    u == header_to_unit(canonical, unwrapped_mappings(call.env),
                                        call.env.exists)
                IN  (canonical \notin call.env.headers_only /\ u # None
                     /\ u[1] \notin call.ignore_files)
                        => u[1] \in DOMAIN ret.v.files

\* the closure holds b.c, reached from the root m.c only through a.h, a.c and
\* the detached header b.h
WitnessC4 ==
    /\ call.op = "scan_c_files"
    /\ ret # NotRun
    /\ ret.v.kind = "ok"
    /\ call.root_files = {Rel("m", "c")}
    /\ call.env.mm[Src("m", "c")] = {Src("a", "h")}
    /\ DOMAIN ret.v.files = {Src("m", "c"), Src("a", "c"), Src("b", "c")}

\* the map the scanner starts from (lib.rs 344-349) and the map after n passes
\* of the loop body (lib.rs 355-383)
RootMap ==
    [k \in {Abs(f, call.env.project_dir) : f \in call.root_files} |->
        get_headers(k, call.env)[1]]

RECURSIVE Passes(_)
Passes(n) ==
    IF n = 0 THEN RootMap
    ELSE LET scanned == Passes(n - 1)
             candidates == scan_candidates(scanned, call.ignore_files,
                                           unwrapped_mappings(call.env), call.env)
         IN  [k \in DOMAIN scanned \cup candidates |->
                 IF k \in DOMAIN scanned THEN scanned[k]
                 ELSE get_headers(k, call.env)[1]]

KeyCount(n) == Cardinality(DOMAIN Passes(n))

\* the units reachable from the roots through the resolver: the least set
\* holding the roots and, with a unit, the units of the headers -MM prints
\* for it
RECURSIVE ReachFrom(_)
ReachFrom(units) ==
    LET more == {u \in ScanUnits \cap call.env.exists :
                    \E k \in units : \E h \in get_headers(k, call.env)[1] :
                        header_to_unit(Abs(h, call.env.project_dir),
                                       unwrapped_mappings(call.env),
                                       call.env.exists) = Some(u)}
    IN  IF more \subseteq units THEN units ELSE ReachFrom(units \cup more)

\* C17: scan_c_files returns on every filesystem; when it returns a map after
\* n + 1 passes, each of the first n passes strictly increased the number of
\* keys, pass n + 1 added none and is the first such pass, and the keys are
\* among the roots and the units reachable from them through the resolver.
TheoremC17 ==
    (call.op = "scan_c_files" /\ ret # NotRun) =>
        /\ ret.v.kind \in {"ok", "panic"}
        /\ DOMAIN ret.v.files \subseteq ReachFrom(DOMAIN RootMap)
        /\ ret.v.kind = "ok" =>
              \E n \in 0..Cardinality(ScanUnits) :
                  /\ \A i \in 0..(n - 1) : KeyCount(i + 1) > KeyCount(i)
                  /\ KeyCount(n + 1) = KeyCount(n)
                  /\ ret.v.files = Passes(n)

\* three passes: the first adds a.c, the second b.c, the third nothing
WitnessC17 ==
    /\ call.op = "scan_c_files"
    /\ ret # NotRun
    /\ ret.v.kind = "ok"
    /\ KeyCount(0) = 1
    /\ KeyCount(1) = 2
    /\ KeyCount(2) = 3
    /\ KeyCount(3) = 3
    /\ ret.v.files = Passes(2)

\* C5: the freshness oracle yields a key S iff the target mtime T is absent,
\* or S or a header of S does not exist, or S or a header of S has an mtime
\* strictly greater than T.
TheoremC5 ==
    (call.op = "ModifiedSources" /\ ret # NotRun) =>
        \A S \in DOMAIN call.sources :
            S \in ret.v <=>
                \/ call.time = None
                \/ \E f \in {S} \cup call.sources[S] : f \notin DOMAIN call.filesystem
                \/ /\ call.time # None
                   /\ \E f \in ({S} \cup call.sources[S]) \cap DOMAIN call.filesystem :
                         call.filesystem[f] > call.time[1]

\* a header as old as the target leaves its sources fresh while a newer
\* header makes the source that includes it stale
WitnessC5 ==
    /\ call.op = "ModifiedSources"
    /\ ret # NotRun
    /\ call.time = Some(1)
    /\ DOMAIN call.filesystem = FreshFiles
    /\ call.filesystem[Src("t", "h")] = 1
    /\ call.filesystem[Src("s", "h")] = 2
    /\ call.filesystem[Src("s", "c")] = 0
    /\ call.filesystem[Src("t", "c")] = 1
    /\ ret.v = {Src("s", "c")}

----------------------------------------------------------------------------
(* Claims about the build *)

CommandsOf(name, kinds) ==
    {i \in 1..Len(cmds) : cmds[i].target = name /\ cmds[i].kind \in kinds}

\* the target cur went through Target::compile and its link without an error
TargetBuilt == pc = "next" /\ cur # None

\* C1: in every target build, any two distinct keys of the scanned closure map
\* are given distinct object paths get_obj_path(target_dir, project_dir,
\* unit_to_obj(key)).
ClaimC1 ==
    \A k1 \in DOMAIN files : \A k2 \in DOMAIN files :
        k1 # k2 => obj_of(target_dir, project_dir, k1) # obj_of(target_dir, project_dir, k2)

\* C2: whenever a binary or dynamic library is linked, the linker is the
\* profile's C++ compiler if some key of the closure is a C++ unit and the C
\* compiler if every key is a C unit, also in an incremental build.
ClaimC2 ==
    \A i \in 1..Len(cmds) :
        cmds[i].kind = "link" =>
            cmds[i].prog = IF \E k \in DOMAIN cmds[i].objs :
                                  determine_from_file(k) = Some("Cpp")
                           THEN "c++" ELSE "cc"

\* the closure's files that are newer than the artifact was when the build of
\* the target began (no source changes while a build runs)
NewerThanTarget ==
    {f \in DOMAIN files \cup all_headers(files) : fs[f] > target_time[1]}

\* C6: the artifact exists and exactly one header of the closure is newer
\* than it, every other source and header being at most as new: the build of
\* the target runs a compile command for exactly the keys whose header list
\* contains that header, one each, and then the link command once.
TheoremC6 ==
    (TargetBuilt /\ target_time # None) =>
        \A h \in all_headers(files) :
            NewerThanTarget = {h} =>
                LET name == cur[1].name
                    compiles == CommandsOf(name, {"compile"})
                    links == CommandsOf(name, {"link", "ar"})
                IN  /\ {cmds[i].unit : i \in compiles} = {k \in DOMAIN files : h \in files[k]}
                    /\ \A i \in compiles : \A j \in compiles :
                          cmds[i].unit = cmds[j].unit => i = j
                    /\ Cardinality(links) = 1
                    /\ \A i \in compiles : \A j \in links : i < j

\* u.h was saved after app was linked: m.c and u.cpp are compiled again, a.c
\* is not, and app is linked
WitnessC6 ==
    /\ TargetBuilt
    /\ cur[1].name = "app"
    /\ target_time # None
    /\ DOMAIN files = {Src("m", "c"), Src("a", "c"), Src("u", "cpp")}
    /\ NewerThanTarget = {Src("u", "h")}
    /\ {cmds[i].unit : i \in CommandsOf("app", {"compile"})}
           = {Src("m", "c"), Src("u", "cpp")}
    /\ cmds[Len(cmds)].kind = "link"

\* the headers the compiler reports for some unit of the world
WorldHeaders == UNION {mm[u] : u \in DOMAIN mm}

Unresolved(h) ==
    /\ Abs(h, project_dir) \notin {Abs(x, project_dir) : x \in project.headers_only}
    /\ header_to_unit(Abs(h, project_dir), << >>, DOMAIN fs) = None

\* C9: a header outside headers_only that resolves to no unit aborts the
\* build of the target when ignore_missing_sources is false: no closure is
\* returned and no compile or link command runs for the target; when the flag
\* is true the header is skipped and the units of the other headers are
\* scanned.  A header of headers_only never aborts the build.
TheoremC9 ==
    /\ pc = "panicked" =>
          /\ ~project.ignore_missing_sources
          /\ \E h \in WorldHeaders : Unresolved(h)
          /\ DOMAIN files = {}
          /\ cur # None
          /\ CommandsOf(cur[1].name, {"compile", "post_compile", "link", "ar"}) = {}
    /\ (cur # None /\ pc # "panicked" /\ ~project.ignore_missing_sources) =>
          \A h \in all_headers(files) : ~Unresolved(h)
    /\ (cur # None /\ project.ignore_missing_sources) =>
          /\ pc # "panicked"
          /\ \A h \in all_headers(files) :
                header_to_unit(h, << >>, DOMAIN fs) # None /\ ~Unresolved(h)
                    => header_to_unit(h, << >>, DOMAIN fs)[1] \in DOMAIN files

\* the library was built, then the scan of app met k.h, which has no unit and
\* is not in headers_only
WitnessC9 ==
    /\ pc = "panicked"
    /\ cur # None
    /\ cur[1].name = "app"
    /\ project.headers_only = {}
    /\ CommandsOf("l", {"compile"}) # {}
    /\ CommandsOf("app", {"compile", "link"}) = {}

TargetNamed(name) ==
    CHOOSE t \in {project.lib[i] : i \in 1..Len(project.lib)}
                 \cup {project.bin[i] : i \in 1..Len(project.bin)} : t.name = name

\* C10: a library that sets disallow_static is never archived as a static
\* library, and one that sets disallow_dynamic is never linked as a dynamic
\* library.
ClaimC10 ==
    \A i \in 1..Len(cmds) :
        /\ cmds[i].kind = "ar" => ~TargetNamed(cmds[i].target).disallow_static
        /\ (cmds[i].kind = "link" /\ cmds[i].spec = "dynamic")
              => ~TargetNamed(cmds[i].target).disallow_dynamic

\* C11: the static-library link command is ar, then the one argument "crs"
\* followed by the static TargetSpec's required_link_options and nothing else,
\* then the output path, then the object path of every key of the closure;
\* no other argument appears, whatever the target's link_options.
ClaimC11 ==
    \A i \in 1..Len(cmds) :
        cmds[i].kind = "ar" =>
            /\ cmds[i].prog = "ar"
            /\ Len(cmds[i].args) = 2 + Cardinality(DOMAIN cmds[i].objs)
            /\ cmds[i].args[1] = Arg(push_all("crs", required_link_options("static")), << >>)
            /\ cmds[i].args[2] = Arg("", cmds[i].out)
            /\ {cmds[i].args[j] : j \in 3..Len(cmds[i].args)}
                  = {Arg("", cmds[i].objs[k]) : k \in DOMAIN cmds[i].objs}

\* the -I arguments of a command
IncludeArgs(cmd) == {cmd.args[j] : j \in {k \in 1..Len(cmd.args) : cmd.args[k].opt = "-I"}}

\* the options of a command that carry no path
PlainOptions(cmd) ==
    {cmd.args[j].opt : j \in {k \in 1..Len(cmd.args) : cmd.args[k].path = << >>}}

\* C12: every include-directory argument on a unit's compile command (the -I
\* of include_dirs and the -I of the staged-dependency include directory) is
\* also on the unit's -MM command, and the -MM command carries no required
\* option of the target kind.
ClaimC12 ==
    \A i \in 1..Len(cmds) :
        /\ cmds[i].kind = "compile" =>
              \E j \in 1..(i - 1) :
                  /\ cmds[j].kind = "mm"
                  /\ cmds[j].target = cmds[i].target
                  /\ cmds[j].unit = cmds[i].unit
                  /\ IncludeArgs(cmds[i]) \subseteq IncludeArgs(cmds[j])
        /\ cmds[i].kind = "mm" =>
              \A spec \in {"bin", "static", "dynamic"} :
                  \A k \in 1..Len(required_compile_options(spec)) :
                      required_compile_options(spec)[k] \notin PlainOptions(cmds[i])

\* C14: within one build of a target, the link or archive command is
\* spawned only after every compile and post_compile command of the target
\* has exited successfully; if one of them fails, no link or archive command
\* is spawned for the target.
TheoremC14 ==
    \A j \in 1..Len(cmds) :
        cmds[j].kind \in {"link", "ar"} =>
            \A i \in CommandsOf(cmds[j].target, {"compile", "post_compile"}) :
                i < j /\ cmds[i].status = "ok"

\* app is linked after three compiles, each followed by the post_compile hook
WitnessC14 ==
    /\ project.post_compile # None
    /\ Cardinality(CommandsOf("app", {"compile"})) = 3
    /\ Cardinality(CommandsOf("app", {"post_compile"})) = 3
    /\ CommandsOf("app", {"link"}) # {}

\* C16: every child process the engine spawns is waited for before the
\* engine spawns another command or returns from the operation that spawned
\* it, on every exit path.
ClaimC16 ==
    \A i \in 1..Len(cmds) : cmds[i].status \in {"ok", "failed"}

\* the command spawned last
LastCommand == cmds[Len(cmds)]

Linking == cmds # << >> /\ LastCommand.kind \in {"link", "ar"}

\* C18: across builds into the same target_dir interleaved with source edits,
\* every object path passed to a link or archive command was the output of a
\* compile command that completed successfully in the current or an earlier
\* build.
ClaimC18 ==
    Linking => \A k \in DOMAIN LastCommand.objs : LastCommand.objs[k] \in DOMAIN objs

\* C19: whenever a target is linked, every object file on its link command
\* was most recently compiled with that target's own option set, even when
\* another target of the project has the same source in its closure.
ClaimC19 ==
    Linking =>
        \A k \in DOMAIN LastCommand.objs :
            LastCommand.objs[k] \in DOMAIN objs =>
                objs[LastCommand.objs[k]].options
                    = compile_options(TargetNamed(LastCommand.target), LastCommand.spec)

\* the elements of a sequence
Range(seq) == {seq[i] : i \in 1..Len(seq)}

\* build_dependencies has returned to the top-level project with success
DependenciesStaged ==
    /\ stack = << >>
    /\ pc \in {"next", "compile", "done"}
    /\ project.dependencies # << >>

\* the positions of the object arguments of a command
ObjectPositions(cmd) ==
    {j \in 1..Len(cmd.args) : cmd.args[j] \in {Arg("", cmd.objs[k]) : k \in DOMAIN cmd.objs}}

\* C13: after build_dependencies succeeds, for every dependency dep_name of
\* the project, lib_dirs contains -L<target_dir>/deps/lib/<dep_name>, libs
\* contains -l<name> for every library of the dependency's sub-project, and
\* each public header of those libraries exists under
\* <target_dir>/deps/include/<dep_name>/ by its file name; every binary link
\* command of the parent project carries all of lib_dirs and all of libs,
\* after the object arguments.
TheoremC13 ==
    DependenciesStaged =>
        /\ \A d \in Range(project.dependencies) :
              /\ Arg("-L", target_dir \o <<Comp("deps", ""), Comp("lib", ""), Comp(d.name, "")>>)
                    \in Range(benv.lib_dirs)
              /\ \A lib \in Range(GocarToml[Abs(d.path, current_dir)].lib) :
                    /\ Arg("-l" \o lib.name, << >>) \in Range(benv.libs)
                    /\ \A h \in Range(lib.public_headers) :
                          current_dir \o target_dir
                              \o <<Comp("deps", ""), Comp("include", ""), Comp(d.name, ""),
                                   h[Len(h)]>> \in DOMAIN fs
        /\ \A i \in 1..Len(cmds) :
              (cmds[i].kind = "link" /\ cmds[i].spec = "bin") =>
                  \A a \in Range(benv.lib_dirs) \cup Range(benv.libs) :
                      \E j \in 1..Len(cmds[i].args) :
                          /\ cmds[i].args[j] = a
                          /\ \A k \in ObjectPositions(cmds[i]) : k < j

\* the build is done and app was linked against the staged foo
WitnessC13 ==
    /\ DependenciesStaged
    /\ pc = "done"
    /\ \E i \in 1..Len(cmds) :
          /\ cmds[i].kind = "link"
          /\ cmds[i].target = "app"
          /\ cmds[i].status = "ok"
          /\ ObjectPositions(cmds[i]) # {}
    /\ Staged("foo", "h") \in DOMAIN fs

\* staging the first dependency of the top-level project fails: its directory
\* has no Gocar.toml, or one of its config headers does not exist
StagingFails ==
    /\ top_project.dependencies # << >>
    /\ LET d == top_project.dependencies[1]
       IN  \/ Abs(d.path, current_dir) \notin DOMAIN GocarToml
           \/ \E h \in Range(d.config_headers) : Abs(h, project_dir) \notin DOMAIN fs

\* C15: propagation is fail-fast.  A command that did not exit with success
\* is the last command of its build and the build has failed; with an unknown
\* profile name or a dependency that cannot be staged the build spawns no
\* command and never succeeds; and from a failed build no step spawns a
\* command: the commands stay as they are until the next build starts over.
TheoremC15 ==
    /\ [](\A i \in 1..Len(cmds) :
             cmds[i].status # "ok" => i = Len(cmds) /\ pc = "failed")
    /\ []((call.profile_name \notin {"release", "debug"}) =>
             cmds = << >> /\ pc \in {"idle", "failed"})
    /\ [](StagingFails => cmds = << >> /\ pc \in {"idle", "deps", "failed"})
    /\ [][pc = "failed" => cmds' \in {cmds, << >>}]_vars

\* the compiler failed on foo.c in the dependency's sub-project: the build
\* has failed inside build_dependencies, with no command of the parent
WitnessC15 ==
    /\ pc = "failed"
    /\ stack # << >>
    /\ cmds # << >>
    /\ LastCommand.kind = "compile"
    /\ LastCommand.status = "failed"
    /\ \A i \in 1..Len(cmds) : cmds[i].target = "foo"

\* the artifacts of the top-level project and of the libraries of its
\* dependencies
Artifacts ==
    {Abs(artifact_path(target_dir, t, top_linkage), current_dir) :
        t \in Range(top_project.lib \o top_project.bin)}
    \cup UNION {
        {Abs(artifact_path(target_dir \o <<Comp("deps", ""), Comp("lib", ""), Comp(d.name, "")>>,
                           l, IF d.linkage = None THEN top_linkage ELSE d.linkage[1]),
             current_dir) : l \in Range(GocarToml[Abs(d.path, current_dir)].lib)} :
        d \in {x \in Range(top_project.dependencies) :
                  Abs(x.path, current_dir) \in DOMAIN GocarToml}}

\* an earlier build has produced every artifact, and no file outside
\* target_dir was modified after it
BuiltBefore ==
    /\ Artifacts \subseteq DOMAIN fs
    /\ \A a \in Artifacts :
          /\ fs[a] < now
          /\ \A f \in DOMAIN fs :
                ~IsPrefix(current_dir \o target_dir, f) => fs[f] <= fs[a]

\* C20: rebuilding is a no-op.  When Project::build has succeeded and no file
\* outside target_dir was modified afterwards, the following build spawns no
\* compile, post_compile, link or archive command for any target of the
\* project or of its dependency sub-projects, also when the dependencies
\* declare config_headers or public_headers that are staged by copying.
ClaimC20 ==
    BuiltBefore =>
        \A i \in 1..Len(cmds) : cmds[i].kind \notin {"compile", "post_compile", "link", "ar"}

\* the runs of build_dependencies that are under way, outermost first: the
\* project, its directory, its linkage and the number of its dependencies
\* that are built
Descent ==
    [i \in 1..(Len(stack) + 1) |->
        IF i <= Len(stack)
        THEN [project |-> stack[i].project, project_dir |-> stack[i].benv.project_dir,
              linkage |-> stack[i].linkage, built |-> Len(stack[i].benv.lib_dirs)]
        ELSE [project |-> project, project_dir |-> benv.project_dir,
              linkage |-> linkage, built |-> Len(benv.lib_dirs)]]

\* C21: Project::build terminates, returning success or an error, whatever
\* the shape of the dependency declarations between the projects.  Each run
\* of build_dependencies goes by its project, its directory, its linkage and
\* the dependencies it has built, and by nothing of the runs around it, so
\* the build terminates only if no run is started inside a run of the same
\* project at the same point: such a run starts the same run again.
ClaimC21 ==
    pc = "deps" =>
        \A i, j \in 1..Len(Descent) : Descent[i] = Descent[j] => i = j

====
